---- MODULE Spec2Model ----
(***************************************************************************)
(* The outbound request reliability layer of firstpromoter-mcp             *)
(* (src/src/api.ts): the sliding-window rate limiter waitForRateLimit,     *)
(* the retry loop of callFirstPromoterAPI and the error classification,    *)
(* as a state machine.  Node runs the code on one event loop: the code     *)
(* between two awaits is one atomic step, so every action below is the     *)
(* synchronous segment that starts at an await's resumption (or at the     *)
(* call) and runs to the next await, return or throw.                      *)
(***************************************************************************)
EXTENDS Integers, Sequences, FiniteSets, TLC

VARIABLES
    FP_BEARER_TOKEN,    \* api.ts:23  process-wide credential ("" when unset)
    FP_ACCOUNT_ID,      \* api.ts:24  process-wide credential ("" when unset)
    clock,              \* Date.now(), in ms
    ticks,              \* number of free clock advances taken so far
    requestTimestamps,  \* api.ts:99  the RateWindow
    admitted,           \* history: every timestamp ever pushed, in push order
    pc,                 \* per call: the await the call is suspended at
    attempt,            \* per call: the loop variable of api.ts:193
    wakeAt,             \* per call: deadline of the pending setTimeout
    response,           \* per call: the Response of the current attempt
    result,             \* per call: what the caller gets (value or error)
    admits,             \* history, per call: timestamps the call pushed
    dispatches,         \* history, per call: clock of each fetch() it issued
    delays,             \* history, per call: argument of each backoff sleep
    outcomes,           \* history, per call: how each attempt ended
    log,                \* history, per call: the logger calls it made
    options,            \* per call: the arguments endpoint and options
    target,             \* per call: the locals url and method of api.ts:182-190
    requests,           \* history, per call: what each fetch() was given
    toolResult          \* per call: what the tool handler around it returns

vars == <<FP_BEARER_TOKEN, FP_ACCOUNT_ID, clock, ticks, requestTimestamps,
          admitted, pc, attempt, wakeAt, response, result, admits,
          dispatches, delays, outcomes, log, options, target, requests,
          toolResult>>

----------------------------------------------------------------------------
(* Program constants                                                       *)

RATE_WINDOW_MS == 60000

RATE_LIMIT == 380

\* MAX_RETRIES with the budget one retry short.
MAX_RETRIES_OneShort == 3 - 1

MAX_RETRIES == 3

BASE_DELAY_MS == 1000

\* Node's setTimeout keeps the delay in a signed 32-bit integer.
TIMEOUT_MAX == 2147483647

\* The upstream's own limit, which the limiter is documented to stay under.
UPSTREAM_LIMIT == 400

----------------------------------------------------------------------------
(* Bounds of the model                                                     *)

\* Free clock advances (idle time, I/O latency, a late timer) in one
\* behaviour of Spec.
MaxTicks == 1

\* The window at the start holds 0 entries or RATE_LIMIT - h, h in 0..Headroom.
Headroom == 1

\* Calls of admit() that the one-after-another callers of SpecSeq make.
SeqAdmits == 4

\* Free clock advances in one behaviour of SpecSeq.
LimiterTicks == 3

\* Callers that call admit() at once in SpecBurst.
NumBurst == 22

\* Spec follows one call of callFirstPromoterAPI.
Calls == {1}

\* Amounts of time that may pass while a call waits for the network or for
\* a timer, or before it is made.
TickSteps == {1000}

\* Amounts of time that may pass between two steps of the limiter's callers.
LimiterSteps == {1, 50, RATE_WINDOW_MS}

----------------------------------------------------------------------------
(* Small helpers                                                           *)

Min(S) == CHOOSE x \in S : \A y \in S : x <= y

RECURSIVE Pow2(_)
Pow2(n) == IF n = 0 THEN 1 ELSE 2 * Pow2(n - 1)

RECURSIVE SumSeq(_)
SumSeq(s) == IF s = <<>> THEN 0 ELSE Head(s) + SumSeq(Tail(s))

Last(s) == s[Len(s)]

----------------------------------------------------------------------------
(* Values of the JavaScript runtime                                        *)

\* A header lookup gives null or a string.
Null == [has |-> FALSE, value |-> ""]

Str(s) == [has |-> TRUE, value |-> s]

\* An absent property (undefined) is the empty set, a present one a singleton.
Undefined == {}

Some(v) == {v}

CharAt(s, i) == SubSeq(s, i, i)

DigitChars == <<"0", "1", "2", "3", "4", "5", "6", "7", "8", "9">>

IsDigit(ch) == \E i \in 1..10 : DigitChars[i] = ch

DigitVal(ch) == (CHOOSE i \in 1..10 : DigitChars[i] = ch) - 1

IsSpace(ch) == ch \in {" ", "\t", "\n", "\r"}

\* Index of the first character of s at or after i that is not white space.
RECURSIVE SkipSpace(_, _)
SkipSpace(s, i) ==
    IF i <= Len(s) /\ IsSpace(CharAt(s, i)) THEN SkipSpace(s, i + 1) ELSE i

\* Value of the longest run of decimal digits of s starting at i, given the
\* value acc of the digits read so far.
RECURSIVE ReadDigits(_, _, _)
ReadDigits(s, i, acc) ==
    IF i <= Len(s) /\ IsDigit(CharAt(s, i))
    THEN ReadDigits(s, i + 1, 10 * acc + DigitVal(CharAt(s, i)))
    ELSE acc

\* parseInt(s, 10): leading white space is skipped, a sign is accepted, the
\* digits up to the first other character are read; NaN when there is none.
parseInt(s) ==
    LET i    == SkipSpace(s, 1)
        neg  == i <= Len(s) /\ CharAt(s, i) = "-"
        sgn  == i <= Len(s) /\ CharAt(s, i) \in {"-", "+"}
        j    == IF sgn THEN i + 1 ELSE i
    IN  IF j <= Len(s) /\ IsDigit(CharAt(s, j))
        THEN [nan |-> FALSE,
              val |-> IF neg THEN 0 - ReadDigits(s, j, 0) ELSE ReadDigits(s, j, 0)]
        ELSE [nan |-> TRUE, val |-> 0]

\* A JSON value carries its type t and its content v; an object also its
\* keys in the order of the text.
JString(x) == [t |-> "string", v |-> x]

JNumber(n) == [t |-> "number", v |-> n]

JNull == [t |-> "null", v |-> 0]

JArray(elems) == [t |-> "array", v |-> elems]

JObject(keys, fields) == [t |-> "object", keys |-> keys, v |-> fields]

\* The string of n copies of the character ch.
RECURSIVE Repeat(_, _)
Repeat(ch, n) ==
    IF n = 0 THEN ""
    ELSE LET half == Repeat(ch, n \div 2)
         IN  IF n % 2 = 0 THEN half \o half ELSE half \o half \o ch

\* A plain-text body and a JSON body longer than the 200 characters that
\* parseErrorDetail keeps.
LongLen == 250

LongText == Repeat("x", LongLen)

LongJSON == "{\"note\":\"" \o LongText \o "\"}"

Parsed(v) == [ok |-> TRUE, value |-> v]

\* JSON.parse on the bodies the transport of the model can return; any other
\* text is a SyntaxError.
JSONParse(raw) ==
    CASE raw = "{\"id\":42}" -> Parsed(JObject(<<"id">>, [id |-> JNumber(42)]))
      [] raw = "{ \"id\": 42 }" -> Parsed(JObject(<<"id">>, [id |-> JNumber(42)]))
      [] raw = "{\"error\":\"bad campaign_id\"}" ->
            Parsed(JObject(<<"error">>, [error |-> JString("bad campaign_id")]))
      [] raw = "{\"message\":\"gone\"}" ->
            Parsed(JObject(<<"message">>, [message |-> JString("gone")]))
      [] raw = "{\"errors\":[\"a\",\"b\"]}" ->
            Parsed(JObject(<<"errors">>, [errors |-> JArray(<<JString("a"), JString("b")>>)]))
      [] raw = "{\"message\":\"m\",\"error\":\"e\",\"errors\":[\"a\"]}" ->
            Parsed(JObject(<<"message", "error", "errors">>,
                           [message |-> JString("m"), error |-> JString("e"),
                            errors |-> JArray(<<JString("a")>>)]))
      [] raw = "{\"errors\":[\"a\",\"b\"],\"message\":\"m\"}" ->
            Parsed(JObject(<<"errors", "message">>,
                           [errors |-> JArray(<<JString("a"), JString("b")>>),
                            message |-> JString("m")]))
      [] raw = "{\"error\":5,\"message\":\"m\"}" ->
            Parsed(JObject(<<"error", "message">>,
                           [error |-> JNumber(5), message |-> JString("m")]))
      [] raw = "{\"error\":5}" -> Parsed(JObject(<<"error">>, [error |-> JNumber(5)]))
      [] raw = "{\"errors\":[]}" -> Parsed(JObject(<<"errors">>, [errors |-> JArray(<<>>)]))
      [] raw = "{\"errors\":[1,2]}" ->
            Parsed(JObject(<<"errors">>, [errors |-> JArray(<<JNumber(1), JNumber(2)>>)]))
      [] raw = LongJSON -> Parsed(JObject(<<"note">>, [note |-> JString(LongText)]))
      [] raw = "\"abc\"" -> Parsed(JString("abc"))
      [] raw = "42" -> Parsed(JNumber(42))
      [] raw = "null" -> Parsed(JNull)
      [] raw = " null" -> Parsed(JNull)
      [] OTHER -> [ok |-> FALSE, value |-> JNull]

\* Array.prototype.join(sep) on an array of strings
RECURSIVE Join(_, _)
Join(a, sep) ==
    IF a = <<>> THEN ""
    ELSE IF Len(a) = 1 THEN a[1]
    ELSE a[1] \o sep \o Join(Tail(a), sep)

\* JSON.stringify on the values JSONParse gives: the compact rendering, the
\* keys of an object in their order.
RECURSIVE JSONStringify(_)
JSONStringify(json) ==
    CASE json.t = "string" -> "\"" \o json.v \o "\""
      [] json.t = "number" -> ToString(json.v)
      [] json.t = "null" -> "null"
      [] json.t = "array" ->
            "[" \o Join([i \in 1..Len(json.v) |-> JSONStringify(json.v[i])], ",") \o "]"
      [] json.t = "object" ->
            "{" \o Join([i \in 1..Len(json.keys) |->
                            "\"" \o json.keys[i] \o "\":"
                                 \o JSONStringify(json.v[json.keys[i]])], ",") \o "}"

\* The text join() uses for an element of an array: the string itself, the
\* digits of a number, nothing for null.
ElementText(e) ==
    CASE e.t = "string" -> e.v
      [] e.t = "number" -> ToString(e.v)
      [] e.t = "null" -> ""
      [] OTHER -> JSONStringify(e)

\* json.errors.join(sep)
JoinElements(a, sep) == Join([i \in 1..Len(a) |-> ElementText(a[i])], sep)

\* Array.isArray(json[f])
IsArrayField(json, f) ==
    /\ json.t = "object"
    /\ f \in DOMAIN json.v
    /\ json.v[f].t = "array"

\* typeof json[f] === 'string'
IsStringField(json, f) ==
    /\ json.t = "object"
    /\ f \in DOMAIN json.v
    /\ json.v[f].t = "string"

\* String.prototype.slice(0, n)
Slice(s, n) == IF Len(s) <= n THEN s ELSE SubSeq(s, 1, n)

----------------------------------------------------------------------------
(* Error handling, api.ts:37-91                                            *)

\* parseErrorDetail with the fields error and message tried in the other
\* order.
parseErrorDetail_MessageFirst(raw) ==
    LET p == JSONParse(raw)
    IN  IF p.ok /\ p.value.t # "null"
        THEN IF IsStringField(p.value, "message") THEN p.value.v["message"].v
             ELSE IF IsStringField(p.value, "error") THEN p.value.v["error"].v
             ELSE IF IsArrayField(p.value, "errors")
                  THEN JoinElements(p.value.v["errors"].v, "; ")
             ELSE Slice(JSONStringify(p.value), 200)
        ELSE Slice(raw, 200)

\* api.ts:53-65.  The catch takes the SyntaxError of JSON.parse and also the
\* TypeError of reading a property of null, the value of the body "null".
parseErrorDetail(raw) ==
    LET p == JSONParse(raw)
    IN  IF p.ok /\ p.value.t # "null"
        THEN IF IsStringField(p.value, "error") THEN p.value.v["error"].v
             ELSE IF IsStringField(p.value, "message") THEN p.value.v["message"].v
             ELSE IF IsArrayField(p.value, "errors")
                  THEN JoinElements(p.value.v["errors"].v, "; ")
             ELSE Slice(JSONStringify(p.value), 200)
        ELSE Slice(raw, 200)

\* buildErrorMessage with the server-error class ending at 503.
buildErrorMessage_Upto503(status, raw) ==
    LET detail == parseErrorDetail(raw)
        suffix == IF detail # "" THEN " - " \o detail ELSE ""
    IN  CASE status = 401 ->
               "Authentication failed - check your FP_BEARER_TOKEN and FP_ACCOUNT_ID"
          [] status = 403 ->
               "Access denied - your API token does not have permission" \o suffix
          [] status = 404 ->
               "Not found - the requested resource does not exist" \o suffix
          [] status = 422 ->
               "Validation error - the request data is invalid" \o suffix
          [] status = 429 ->
               "Rate limit exceeded - too many requests to FirstPromoter API"
          [] OTHER ->
               IF status >= 500 /\ status <= 503
               THEN "FirstPromoter server error (" \o ToString(status)
                    \o ") - service may be temporarily unavailable" \o suffix
               ELSE "FirstPromoter API error (" \o ToString(status) \o ")" \o suffix

buildErrorMessage(status, raw) ==
    LET detail == parseErrorDetail(raw)
        suffix == IF detail # "" THEN " - " \o detail ELSE ""
    IN  CASE status = 401 ->
               "Authentication failed - check your FP_BEARER_TOKEN and FP_ACCOUNT_ID"
          [] status = 403 ->
               "Access denied - your API token does not have permission" \o suffix
          [] status = 404 ->
               "Not found - the requested resource does not exist" \o suffix
          [] status = 422 ->
               "Validation error - the request data is invalid" \o suffix
          [] status = 429 ->
               "Rate limit exceeded - too many requests to FirstPromoter API"
          [] OTHER ->
               IF status >= 500 /\ status <= 504
               THEN "FirstPromoter server error (" \o ToString(status)
                    \o ") - service may be temporarily unavailable" \o suffix
               ELSE "FirstPromoter API error (" \o ToString(status) \o ")" \o suffix

\* A FirstPromoterAPIError that loses its status code.
FirstPromoterAPIError_NoStatus(message, statusCode, detail) ==
    [kind |-> "FirstPromoterAPIError", message |-> message,
     statusCode |-> Undefined, detail |-> Some(detail),
     value |-> Undefined]

\* new FirstPromoterAPIError(message, statusCode, detail)
FirstPromoterAPIError(message, statusCode, detail) ==
    [kind |-> "FirstPromoterAPIError", message |-> message,
     statusCode |-> Some(statusCode), detail |-> Some(detail),
     value |-> Undefined]

\* new Error(message), and any exception that is not a FirstPromoterAPIError
Error(name, message) ==
    [kind |-> name, message |-> message, statusCode |-> Undefined,
     detail |-> Undefined, value |-> Undefined]

\* A call that returned v.
Returned(v) ==
    [kind |-> "value", message |-> "", statusCode |-> Undefined,
     detail |-> Undefined, value |-> Some(v)]

\* A call that has not ended.
Pending ==
    [kind |-> "pending", message |-> "", statusCode |-> Undefined,
     detail |-> Undefined, value |-> Undefined]

----------------------------------------------------------------------------
(* Retry logic, api.ts:127-150                                             *)

\* A JavaScript number of milliseconds, q * 1000 + r with r in 0..999.  It is
\* kept in two parts because a Retry-After of some weeks, times 1000, is a
\* number the checker's 32-bit integers cannot hold.
Millis(q, r) == [q |-> q, r |-> r]

\* The number n, small enough to be an integer of the checker, as Millis.
ToMillis(n) == Millis(n \div 1000, n % 1000)

\* sleep(ms): the number of ms after which setTimeout resolves the promise,
\* at the earliest.  Node keeps the delay in a signed 32-bit integer: a delay
\* below 1 or above TIMEOUT_MAX is replaced by 1.
sleep(ms) ==
    LET under == ms.q < 0 \/ (ms.q = 0 /\ ms.r < 1)
        over  == \/ ms.q > TIMEOUT_MAX \div 1000
                 \/ (ms.q = TIMEOUT_MAX \div 1000 /\ ms.r > TIMEOUT_MAX % 1000)
    IN  IF under \/ over THEN 1 ELSE ms.q * 1000 + ms.r

\* getRetryDelay backing off by a step of BASE_DELAY_MS instead of doubling.
getRetryDelay_Linear(att, resp) ==
    LET retryAfter == resp.retryAfter
        seconds    == parseInt(retryAfter.value)
    IN  IF retryAfter.has /\ retryAfter.value # "" /\ ~seconds.nan
        THEN Millis(seconds.val, 0)
        ELSE ToMillis(BASE_DELAY_MS * (att + 1))

\* getRetryDelay taking the header only when it gives a positive number of
\* seconds.
getRetryDelay_PositiveOnly(att, resp) ==
    LET retryAfter == resp.retryAfter
        seconds    == parseInt(retryAfter.value)
    IN  IF retryAfter.has /\ retryAfter.value # "" /\ ~seconds.nan /\ seconds.val > 0
        THEN Millis(seconds.val, 0)
        ELSE ToMillis(BASE_DELAY_MS * Pow2(att))

getRetryDelay(att, resp) ==
    LET retryAfter == resp.retryAfter
        seconds    == parseInt(retryAfter.value)
    IN  IF retryAfter.has /\ retryAfter.value # "" /\ ~seconds.nan
        THEN Millis(seconds.val, 0)
        ELSE ToMillis(BASE_DELAY_MS * Pow2(att))

\* isRetryable taking every 5xx status as retryable.
isRetryable_Any5xx(status) == status = 429 \/ status >= 500

isRetryable(status) == status = 429 \/ (status >= 500 /\ status <= 504)

\* Response.ok
ResponseOk(status) == status >= 200 /\ status <= 299

----------------------------------------------------------------------------
(* Rate limiter, api.ts:97-121                                             *)

\* The pruning loop as an if: at most one timestamp is removed.
FirstKept_OneShift(ts, now) ==
    IF Len(ts) > 0 /\ ts[1] < now - RATE_WINDOW_MS THEN 2 ELSE 1

\* Index of the first entry of ts that the loop of api.ts:109-111 keeps
\* (Len(ts) + 1 when it keeps none): the loop shifts entries off the front
\* while the front entry is older than now - RATE_WINDOW_MS.
FirstKept(ts, now) ==
    CHOOSE i \in 1..(Len(ts) + 1) :
        /\ i = Len(ts) + 1 \/ ts[i] >= now - RATE_WINDOW_MS
        /\ \A j \in 1..(i - 1) : ts[j] < now - RATE_WINDOW_MS

\* The limiter without the pruning loop.
Prune_KeepAll(ts, now) == ts

\* api.ts:109-111
Prune(ts, now) == SubSeq(ts, FirstKept(ts, now), Len(ts))

\* The ceiling check letting one request too many through.
AtLimit_OffByOne(ts) == Len(ts) > RATE_LIMIT

\* The check of api.ts:113.
AtLimit(ts) == Len(ts) >= RATE_LIMIT

\* The wait without its 50 ms margin.
WaitMs_NoMargin(ts, now) == ts[1] + RATE_WINDOW_MS - now

\* api.ts:115
WaitMs(ts, now) == ts[1] + RATE_WINDOW_MS - now + 50

LogEntry(level, what) == [level |-> level, what |-> what]

\* waitForRateLimit() called by c, up to its first await or its return:
\* prune, check, then either start the sleep of api.ts:117 or push and return.
\* next is where the caller goes on once admitted.
waitForRateLimit(c, next) ==
    LET now    == clock
        pruned == Prune(requestTimestamps, now)
    IN  IF AtLimit(pruned)
        THEN /\ requestTimestamps' = pruned
             /\ wakeAt' = [wakeAt EXCEPT ![c] = now + sleep(ToMillis(WaitMs(pruned, now)))]
             /\ log' = [log EXCEPT ![c] = Append(@, LogEntry("warn", "rate limiter pausing"))]
             /\ pc' = [pc EXCEPT ![c] = "rateLimitSleep"]
             /\ UNCHANGED <<admitted, admits>>
        ELSE /\ requestTimestamps' = Append(pruned, now)
             /\ admitted' = Append(admitted, now)
             /\ admits' = [admits EXCEPT ![c] = Append(@, now)]
             /\ pc' = [pc EXCEPT ![c] = next]
             /\ UNCHANGED <<wakeAt, log>>

\* A limiter that prunes and checks again after its sleep, and sleeps again
\* when the window is still at the ceiling.
RateLimitWake_Recheck(c, next) ==
    /\ pc[c] = "rateLimitSleep"
    /\ clock >= wakeAt[c]
    /\ LET pruned == Prune(requestTimestamps, clock)
       IN  IF AtLimit(pruned)
           THEN /\ requestTimestamps' = pruned
                /\ wakeAt' = [wakeAt EXCEPT ![c] =
                                 clock + sleep(ToMillis(WaitMs(pruned, clock)))]
                /\ UNCHANGED <<admitted, admits, pc>>
           ELSE /\ requestTimestamps' = Append(pruned, clock)
                /\ admitted' = Append(admitted, clock)
                /\ admits' = [admits EXCEPT ![c] = Append(@, clock)]
                /\ pc' = [pc EXCEPT ![c] = next]
                /\ UNCHANGED wakeAt
    /\ UNCHANGED <<options, target, requests, toolResult, FP_BEARER_TOKEN,
                   FP_ACCOUNT_ID, clock, ticks, attempt,
                   response, result, dispatches, delays, outcomes, log>>

\* A timer that does not fire at its deadline.
RateLimitWake_Late(c, next) ==
    /\ pc[c] = "rateLimitSleep"
    /\ clock > wakeAt[c]
    /\ requestTimestamps' = Append(requestTimestamps, clock)
    /\ admitted' = Append(admitted, clock)
    /\ admits' = [admits EXCEPT ![c] = Append(@, clock)]
    /\ pc' = [pc EXCEPT ![c] = next]
    /\ UNCHANGED <<options, target, requests, toolResult, FP_BEARER_TOKEN,
                   FP_ACCOUNT_ID, clock, ticks, attempt, wakeAt,
                   response, result, dispatches, delays, outcomes, log>>

\* The sleep of api.ts:117 is over: api.ts:120 pushes the time it is now.
RateLimitWake(c, next) ==
    /\ pc[c] = "rateLimitSleep"
    /\ clock >= wakeAt[c]
    /\ requestTimestamps' = Append(requestTimestamps, clock)
    /\ admitted' = Append(admitted, clock)
    /\ admits' = [admits EXCEPT ![c] = Append(@, clock)]
    /\ pc' = [pc EXCEPT ![c] = next]
    /\ UNCHANGED <<options, target, requests, toolResult, FP_BEARER_TOKEN,
                   FP_ACCOUNT_ID, clock, ticks, attempt, wakeAt,
                   response, result, dispatches, delays, outcomes, log>>

----------------------------------------------------------------------------
(* The transport: what fetch() may answer                                  *)

\* A Response: status, the Retry-After header, the body text.
Response(status, retryAfter, body) ==
    [status |-> status, retryAfter |-> retryAfter, body |-> body]

NoResponse == Response(0, Null, "")

OkResponses ==
    {Response(200, Null, "{\"id\":42}"), Response(200, Null, ""),
     Response(204, Null, "")}

TerminalResponses ==
    {Response(st, Null, "oops") : st \in {304, 401, 404, 505}}
      \cup {Response(404, Null, "{\"error\":\"bad campaign_id\"}")}

RetryableResponses ==
    {Response(429, h, "") : h \in {Null, Str("2"), Str("abc"), Str("2147484")}}
      \cup {Response(503, Null, "oops"), Response(504, Str("0"), "oops")}

Responses == OkResponses \cup TerminalResponses \cup RetryableResponses

\* How an attempt ended, for the history.
Outcome(kind, resp) ==
    [kind |-> kind, status |-> resp.status, retryAfter |-> resp.retryAfter,
     at |-> clock]

----------------------------------------------------------------------------
(* The request, api.ts:181-215                                             *)

FP_API_BASE == "https://api.firstpromoter.com/api/v2/company"

\* The arguments of a call: the endpoint and the options object, whose
\* fields method, body and queryParams may each be absent.  queryParams is a
\* sequence of <<name, value>> pairs, body a JSON value.
Options(endpoint, method, body, queryParams) ==
    [endpoint |-> endpoint, method |-> method, body |-> body,
     queryParams |-> queryParams]

\* The characters application/x-www-form-urlencoded leaves as they are.
Unreserved ==
    {"a", "b", "c", "d", "e", "f", "g", "h", "i", "j", "k", "l", "m", "n", "o",
     "p", "q", "r", "s", "t", "u", "v", "w", "x", "y", "z", "_", "-", ".", "*",
     "0", "1", "2", "3", "4", "5", "6", "7", "8", "9"}

\* One character as URLSearchParams.toString() writes it.
EncodeChar(ch) ==
    CASE ch \in Unreserved -> ch
      [] ch = " " -> "+"
      [] ch = "&" -> "%26"
      [] ch = "=" -> "%3D"
      [] ch = "+" -> "%2B"
      [] ch = "@" -> "%40"
      [] ch = "/" -> "%2F"
      [] ch = "?" -> "%3F"

RECURSIVE Encode(_)
Encode(str) ==
    IF str = "" THEN ""
    ELSE EncodeChar(CharAt(str, 1)) \o Encode(SubSeq(str, 2, Len(str)))

\* new URLSearchParams(queryParams).toString()
URLSearchParams(pairs) ==
    Join([i \in 1..Len(pairs) |-> Encode(pairs[i][1]) \o "=" \o Encode(pairs[i][2])], "&")

\* api.ts:182-188
BuildUrl(opts) ==
    IF opts.queryParams # Undefined
    THEN FP_API_BASE \o opts.endpoint \o "?"
            \o URLSearchParams(CHOOSE q \in opts.queryParams : TRUE)
    ELSE FP_API_BASE \o opts.endpoint

\* api.ts:190
MethodOf(opts) == IF opts.method # Undefined THEN CHOOSE m \in opts.method : TRUE ELSE "GET"

Target(url, method) == [url |-> url, method |-> method]

NoTarget == Target("", "")

\* What fetch() is given, api.ts:203-215.
Request(tgt, opts) ==
    [url |-> tgt.url,
     method |-> tgt.method,
     headers |-> [Authorization |-> "Bearer " \o FP_BEARER_TOKEN,
                  AccountID |-> FP_ACCOUNT_ID,
                  ContentType |-> "application/json"],
     body |-> IF opts.body # Undefined
              THEN Some(JSONStringify(CHOOSE b \in opts.body : TRUE))
              ELSE Undefined]

\* The call the checks of the retry loop and of the limiter are made with.
DefaultOptions == Options("/promoters", Undefined, Undefined, Undefined)

\* A tool handler that has not returned.
NoToolResult == [returned |-> FALSE, isError |-> FALSE, text |-> ""]

----------------------------------------------------------------------------
(* callFirstPromoterAPI, api.ts:165-262                                    *)

Return(c, r) ==
    /\ result' = [result EXCEPT ![c] = r]
    /\ pc' = [pc EXCEPT ![c] = "done"]

\* The call with the credentials check left out.
callFirstPromoterAPI_NoCredentialsCheck(c) ==
    /\ pc[c] = "idle"
    /\ target' = [target EXCEPT ![c] = Target(BuildUrl(options[c]), MethodOf(options[c]))]
    /\ attempt' = [attempt EXCEPT ![c] = 0]
    /\ waitForRateLimit(c, "admitted")
    /\ UNCHANGED <<options, requests, toolResult, FP_BEARER_TOKEN,
                   FP_ACCOUNT_ID, clock, ticks, response, result,
                   dispatches, delays, outcomes>>

\* The call, api.ts:173-195: the credentials check, then the first pass of
\* the loop up to the await of api.ts:195.
callFirstPromoterAPI(c) ==
    /\ pc[c] = "idle"
    /\ IF FP_BEARER_TOKEN = "" \/ FP_ACCOUNT_ID = ""
       THEN /\ Return(c, Error("Error", "FirstPromoter credentials not configured."))
            /\ UNCHANGED <<requestTimestamps, admitted, attempt, wakeAt, admits, log,
                           target>>
       ELSE /\ target' = [target EXCEPT ![c] =
                             Target(BuildUrl(options[c]), MethodOf(options[c]))]
            /\ attempt' = [attempt EXCEPT ![c] = 0]
            /\ waitForRateLimit(c, "admitted")
            /\ UNCHANGED result
    /\ UNCHANGED <<options, requests, toolResult, FP_BEARER_TOKEN,
                   FP_ACCOUNT_ID, clock, ticks, response,
                   dispatches, delays, outcomes>>

\* The retries sent without the body of the first attempt.
Dispatch_RetryWithoutBody(c) ==
    /\ pc[c] = "admitted"
    /\ log' = [log EXCEPT ![c] = Append(@, LogEntry("debug", "API request"))]
    /\ dispatches' = [dispatches EXCEPT ![c] = Append(@, clock)]
    /\ requests' = [requests EXCEPT ![c] =
                       Append(@, IF attempt[c] = 0
                                 THEN Request(target[c], options[c])
                                 ELSE [Request(target[c], options[c]) EXCEPT
                                          !.body = Undefined])]
    /\ pc' = [pc EXCEPT ![c] = "fetch"]
    /\ UNCHANGED <<options, target, toolResult, FP_BEARER_TOKEN,
                   FP_ACCOUNT_ID, clock, ticks, requestTimestamps,
                   admitted, attempt, wakeAt, response, result, admits, delays,
                   outcomes>>

\* api.ts:197-215: the admission is through; log and dispatch the request.
Dispatch(c) ==
    /\ pc[c] = "admitted"
    /\ log' = [log EXCEPT ![c] = Append(@, LogEntry("debug", "API request"))]
    /\ dispatches' = [dispatches EXCEPT ![c] = Append(@, clock)]
    /\ requests' = [requests EXCEPT ![c] = Append(@, Request(target[c], options[c]))]
    /\ pc' = [pc EXCEPT ![c] = "fetch"]
    /\ UNCHANGED <<options, target, toolResult, FP_BEARER_TOKEN,
                   FP_ACCOUNT_ID, clock, ticks, requestTimestamps,
                   admitted, attempt, wakeAt, response, result, admits, delays,
                   outcomes>>

\* The catch branch logging at error level only when it gives up.
FetchRejects_QuietRetry(c) ==
    /\ pc[c] = "fetch"
    /\ outcomes' = [outcomes EXCEPT ![c] = Append(@, Outcome("network", NoResponse))]
    /\ IF attempt[c] < MAX_RETRIES
       THEN LET delay == ToMillis(BASE_DELAY_MS * Pow2(attempt[c]))
            IN  /\ log' = [log EXCEPT ![c] =
                             Append(@, LogEntry("warn", "retrying"))]
                /\ delays' = [delays EXCEPT ![c] = Append(@, delay)]
                /\ wakeAt' = [wakeAt EXCEPT ![c] = clock + sleep(delay)]
                /\ pc' = [pc EXCEPT ![c] = "backoff"]
                /\ UNCHANGED result
       ELSE /\ log' = [log EXCEPT ![c] = Append(@, LogEntry("error", "API network error"))]
            /\ Return(c, Error("Error", "Network error calling FirstPromoter API: fetch failed"))
            /\ UNCHANGED <<delays, wakeAt>>
    /\ UNCHANGED <<options, target, requests, toolResult, FP_BEARER_TOKEN,
                   FP_ACCOUNT_ID, clock, ticks, requestTimestamps,
                   admitted, attempt, response, admits, dispatches>>

\* api.ts:216-229: fetch() threw (DNS, timeout, connection refused).
FetchRejects(c) ==
    /\ pc[c] = "fetch"
    /\ outcomes' = [outcomes EXCEPT ![c] = Append(@, Outcome("network", NoResponse))]
    /\ IF attempt[c] < MAX_RETRIES
       THEN LET delay == ToMillis(BASE_DELAY_MS * Pow2(attempt[c]))
            IN  /\ log' = [log EXCEPT ![c] =
                             @ \o <<LogEntry("error", "API network error"),
                                    LogEntry("warn", "retrying")>>]
                /\ delays' = [delays EXCEPT ![c] = Append(@, delay)]
                /\ wakeAt' = [wakeAt EXCEPT ![c] = clock + sleep(delay)]
                /\ pc' = [pc EXCEPT ![c] = "backoff"]
                /\ UNCHANGED result
       ELSE /\ log' = [log EXCEPT ![c] = Append(@, LogEntry("error", "API network error"))]
            /\ Return(c, Error("Error", "Network error calling FirstPromoter API: fetch failed"))
            /\ UNCHANGED <<delays, wakeAt>>
    /\ UNCHANGED <<options, target, requests, toolResult, FP_BEARER_TOKEN,
                   FP_ACCOUNT_ID, clock, ticks, requestTimestamps,
                   admitted, attempt, response, admits, dispatches>>

\* The executor keeping the response of its first attempt for the attempts
\* that follow.
FetchResolves_KeepFirst(c, resp) ==
    /\ pc[c] = "fetch"
    /\ response' = [response EXCEPT ![c] = IF attempt[c] = 0 THEN resp ELSE @]
    /\ outcomes' = [outcomes EXCEPT ![c] = Append(@, Outcome("response", resp))]
    /\ IF ResponseOk(resp.status)
       THEN /\ log' = [log EXCEPT ![c] = Append(@, LogEntry("debug", "API response"))]
            /\ pc' = [pc EXCEPT ![c] = "json"]
       ELSE /\ pc' = [pc EXCEPT ![c] = "text"]
            /\ UNCHANGED log
    /\ UNCHANGED <<options, target, requests, toolResult, FP_BEARER_TOKEN,
                   FP_ACCOUNT_ID, clock, ticks, requestTimestamps,
                   admitted, attempt, wakeAt, result, admits, dispatches, delays>>

\* api.ts:231-241: fetch() gave a Response; a 2xx goes on to response.json(),
\* any other status to response.text().
FetchResolves(c, resp) ==
    /\ pc[c] = "fetch"
    /\ response' = [response EXCEPT ![c] = resp]
    /\ outcomes' = [outcomes EXCEPT ![c] = Append(@, Outcome("response", resp))]
    /\ IF ResponseOk(resp.status)
       THEN /\ log' = [log EXCEPT ![c] = Append(@, LogEntry("debug", "API response"))]
            /\ pc' = [pc EXCEPT ![c] = "json"]
       ELSE /\ pc' = [pc EXCEPT ![c] = "text"]
            /\ UNCHANGED log
    /\ UNCHANGED <<options, target, requests, toolResult, FP_BEARER_TOKEN,
                   FP_ACCOUNT_ID, clock, ticks, requestTimestamps,
                   admitted, attempt, wakeAt, result, admits, dispatches, delays>>

\* api.ts:237: the promise of response.json() settles with the body read.
\* The call returns the parsed value; when the body is no JSON text the
\* SyntaxError of response.json() is what the call throws.
JsonSettles(c) ==
    /\ pc[c] = "json"
    /\ LET p == JSONParse(response[c].body)
       IN  IF p.ok
           THEN Return(c, Returned(p.value))
           ELSE Return(c, Error("SyntaxError", "Unexpected end of JSON input"))
    /\ UNCHANGED <<options, target, requests, toolResult, FP_BEARER_TOKEN,
                   FP_ACCOUNT_ID, clock, ticks, requestTimestamps,
                   admitted, attempt, wakeAt, response, admits, dispatches, delays,
                   outcomes, log>>

\* api.ts:237, api.ts:241: the connection broke while the body was read; the
\* TypeError of response.json() or response.text() is what the call throws.
BodyReadRejects(c) ==
    /\ pc[c] \in {"json", "text"}
    /\ Return(c, Error("TypeError", "terminated"))
    /\ outcomes' = [outcomes EXCEPT ![c][Len(outcomes[c])].kind = "aborted"]
    /\ UNCHANGED <<options, target, requests, toolResult, FP_BEARER_TOKEN,
                   FP_ACCOUNT_ID, clock, ticks, requestTimestamps,
                   admitted, attempt, wakeAt, response, admits, dispatches, delays,
                   log>>

\* The error path retrying a retryable status whatever the attempt number.
TextResolves_RetryAlways(c) ==
    /\ pc[c] = "text"
    /\ LET errorText == response[c].body
           status    == response[c].status
       IN  IF isRetryable(status)
           THEN LET delay == getRetryDelay(attempt[c], response[c])
                IN  /\ log' = [log EXCEPT ![c] = Append(@, LogEntry("warn", "retrying"))]
                    /\ delays' = [delays EXCEPT ![c] = Append(@, delay)]
                    /\ wakeAt' = [wakeAt EXCEPT ![c] = clock + sleep(delay)]
                    /\ pc' = [pc EXCEPT ![c] = "backoff"]
                    /\ UNCHANGED result
           ELSE /\ log' = [log EXCEPT ![c] = Append(@, LogEntry("error", "API error"))]
                /\ Return(c, FirstPromoterAPIError(buildErrorMessage(status, errorText),
                                                   status, parseErrorDetail(errorText)))
                /\ UNCHANGED <<delays, wakeAt>>
    /\ UNCHANGED <<options, target, requests, toolResult, FP_BEARER_TOKEN,
                   FP_ACCOUNT_ID, clock, ticks, requestTimestamps,
                   admitted, attempt, response, admits, dispatches, outcomes>>

\* api.ts:241-257: the error body is read; retry, or throw the classified error.
TextResolves(c) ==
    /\ pc[c] = "text"
    /\ LET errorText == response[c].body
           status    == response[c].status
       IN  IF isRetryable(status) /\ attempt[c] < MAX_RETRIES
           THEN LET delay == getRetryDelay(attempt[c], response[c])
                IN  /\ log' = [log EXCEPT ![c] = Append(@, LogEntry("warn", "retrying"))]
                    /\ delays' = [delays EXCEPT ![c] = Append(@, delay)]
                    /\ wakeAt' = [wakeAt EXCEPT ![c] = clock + sleep(delay)]
                    /\ pc' = [pc EXCEPT ![c] = "backoff"]
                    /\ UNCHANGED result
           ELSE /\ log' = [log EXCEPT ![c] = Append(@, LogEntry("error", "API error"))]
                /\ Return(c, FirstPromoterAPIError(buildErrorMessage(status, errorText),
                                                   status, parseErrorDetail(errorText)))
                /\ UNCHANGED <<delays, wakeAt>>
    /\ UNCHANGED <<options, target, requests, toolResult, FP_BEARER_TOKEN,
                   FP_ACCOUNT_ID, clock, ticks, requestTimestamps,
                   admitted, attempt, response, admits, dispatches, outcomes>>

\* The loop variable kept in one place for all calls.
BackoffWake_SharedAttempt(c) ==
    /\ pc[c] = "backoff"
    /\ clock >= wakeAt[c]
    /\ attempt' = [d \in DOMAIN attempt |-> attempt[d] + 1]
    /\ IF attempt[c] + 1 <= MAX_RETRIES
       THEN /\ waitForRateLimit(c, "admitted")
            /\ UNCHANGED result
       ELSE /\ Return(c, Error("Error", "Unexpected: retry loop exited without returning or throwing"))
            /\ UNCHANGED <<requestTimestamps, admitted, wakeAt, admits, log>>
    /\ UNCHANGED <<options, target, requests, toolResult, FP_BEARER_TOKEN,
                   FP_ACCOUNT_ID, clock, ticks, response,
                   dispatches, delays, outcomes>>

\* A backoff timer that does not fire at its deadline.
BackoffWake_Late(c) ==
    /\ pc[c] = "backoff"
    /\ clock > wakeAt[c]
    /\ attempt' = [attempt EXCEPT ![c] = @ + 1]
    /\ IF attempt[c] + 1 <= MAX_RETRIES
       THEN /\ waitForRateLimit(c, "admitted")
            /\ UNCHANGED result
       ELSE /\ Return(c, Error("Error", "Unexpected: retry loop exited without returning or throwing"))
            /\ UNCHANGED <<requestTimestamps, admitted, wakeAt, admits, log>>
    /\ UNCHANGED <<options, target, requests, toolResult, FP_BEARER_TOKEN,
                   FP_ACCOUNT_ID, clock, ticks, response,
                   dispatches, delays, outcomes>>

\* The retry going to the network without passing the rate limiter.
BackoffWake_NoAdmission(c) ==
    /\ pc[c] = "backoff"
    /\ clock >= wakeAt[c]
    /\ attempt' = [attempt EXCEPT ![c] = @ + 1]
    /\ pc' = [pc EXCEPT ![c] = "admitted"]
    /\ UNCHANGED <<options, target, requests, toolResult, FP_BEARER_TOKEN,
                   FP_ACCOUNT_ID, clock, ticks, requestTimestamps,
                   admitted, wakeAt, response, result, admits, dispatches, delays,
                   outcomes, log>>

\* The backoff sleep of api.ts:225 or api.ts:250 is over: continue, that is
\* attempt++ and the loop test of api.ts:193, then the next pass up to the
\* await of api.ts:195; api.ts:261 when the loop is left.
BackoffWake(c) ==
    /\ pc[c] = "backoff"
    /\ clock >= wakeAt[c]
    /\ attempt' = [attempt EXCEPT ![c] = @ + 1]
    /\ IF attempt[c] + 1 <= MAX_RETRIES
       THEN /\ waitForRateLimit(c, "admitted")
            /\ UNCHANGED result
       ELSE /\ Return(c, Error("Error", "Unexpected: retry loop exited without returning or throwing"))
            /\ UNCHANGED <<requestTimestamps, admitted, wakeAt, admits, log>>
    /\ UNCHANGED <<options, target, requests, toolResult, FP_BEARER_TOKEN,
                   FP_ACCOUNT_ID, clock, ticks, response,
                   dispatches, delays, outcomes>>

----------------------------------------------------------------------------
(* Time                                                                    *)

Sleeping(c) == pc[c] \in {"rateLimitSleep", "backoff"}

\* The clock reaches the deadline of the timer that is due next.
TimerTick ==
    /\ \E c \in DOMAIN pc : Sleeping(c) /\ wakeAt[c] > clock
    /\ clock' = Min({wakeAt[c] : c \in {d \in DOMAIN pc : Sleeping(d) /\ wakeAt[d] > clock}})
    /\ UNCHANGED <<options, target, requests, toolResult, FP_BEARER_TOKEN,
                   FP_ACCOUNT_ID, ticks, requestTimestamps, admitted,
                   pc, attempt, wakeAt, response, result, admits, dispatches,
                   delays, outcomes, log>>

\* Time passes: no call is made, a request is under way, a timer fires late.
Tick(d, max) ==
    /\ ticks < max
    /\ \E c \in DOMAIN pc : pc[c] \in {"idle", "fetch", "rateLimitSleep", "backoff"}
    /\ clock' = clock + d
    /\ ticks' = ticks + 1
    /\ UNCHANGED <<options, target, requests, toolResult, FP_BEARER_TOKEN,
                   FP_ACCOUNT_ID, requestTimestamps, admitted,
                   pc, attempt, wakeAt, response, result, admits, dispatches,
                   delays, outcomes, log>>

----------------------------------------------------------------------------
(* The system: a call of callFirstPromoterAPI                              *)

\* The window a process that has run for a while can hold: n admissions, made
\* at time 0.
InitWindow(n) == [i \in 1..n |-> 0]

InitFills == {0} \cup {RATE_LIMIT - h : h \in 0..Headroom}

InitCallsWith(ids, opts) ==
    /\ pc = [c \in ids |-> "idle"]
    /\ attempt = [c \in ids |-> 0]
    /\ wakeAt = [c \in ids |-> 0]
    /\ response = [c \in ids |-> NoResponse]
    /\ result = [c \in ids |-> Pending]
    /\ admits = [c \in ids |-> <<>>]
    /\ dispatches = [c \in ids |-> <<>>]
    /\ delays = [c \in ids |-> <<>>]
    /\ outcomes = [c \in ids |-> <<>>]
    /\ log = [c \in ids |-> <<>>]
    /\ options = [c \in ids |-> opts]
    /\ target = [c \in ids |-> NoTarget]
    /\ requests = [c \in ids |-> <<>>]
    /\ toolResult = [c \in ids |-> NoToolResult]

InitCalls(ids) == InitCallsWith(ids, DefaultOptions)

Init ==
    /\ \E creds \in {<<"tok", "acct">>, <<"", "acct">>, <<"tok", "">>} :
          /\ FP_BEARER_TOKEN = creds[1]
          /\ FP_ACCOUNT_ID = creds[2]
    /\ clock = 0
    /\ ticks = 0
    /\ \E n \in InitFills :
          /\ requestTimestamps = InitWindow(n)
          /\ admitted = InitWindow(n)
    /\ InitCalls(Calls)

Next ==
    \/ \E c \in Calls : callFirstPromoterAPI(c)
    \/ \E c \in Calls : RateLimitWake(c, "admitted")
    \/ \E c \in Calls : Dispatch(c)
    \/ \E c \in Calls : FetchRejects(c)
    \/ \E c \in Calls, resp \in Responses : FetchResolves(c, resp)
    \/ \E c \in Calls : JsonSettles(c)
    \/ \E c \in Calls : BodyReadRejects(c)
    \/ \E c \in Calls : TextResolves(c)
    \/ \E c \in Calls : BackoffWake(c)
    \/ TimerTick
    \/ \E d \in TickSteps : Tick(d, MaxTicks)

Spec == Init /\ [][Next]_vars

\* Spec with time advancing and the transport settling every request: the
\* event loop runs a step that is ready.
LiveSpec == Spec /\ WF_vars(Next)

----------------------------------------------------------------------------
(* The rate limiter alone: callers of admit(), that is waitForRateLimit()  *)

\* A caller calls waitForRateLimit(), at most max times, each call after
\* its last one returned.
Admit(c, max) ==
    /\ pc[c] \in {"idle", "admitted"}
    /\ Len(admits[c]) < max
    /\ waitForRateLimit(c, "admitted")
    /\ UNCHANGED <<options, target, requests, toolResult, FP_BEARER_TOKEN,
                   FP_ACCOUNT_ID, clock, ticks, attempt, response,
                   result, dispatches, delays, outcomes>>

\* A window a process can hold at time `later`: n admissions, the first k of
\* them made at time 0 and the others at time `later`.
InitWindowAt(n, k, later) == [i \in 1..n |-> IF i <= k THEN 0 ELSE later]

InitLimiter(ids, n, k, later) ==
    /\ FP_BEARER_TOKEN = "tok"
    /\ FP_ACCOUNT_ID = "acct"
    /\ clock = later
    /\ ticks = 0
    /\ requestTimestamps = InitWindowAt(n, k, later)
    /\ admitted = InitWindowAt(n, k, later)
    /\ InitCalls(ids)

\* SpecSeq: admit() is called by one caller after another, so no two
\* admissions are in flight at once.
SeqCallers == {1}

InitSeq ==
    \E n \in InitFills : \E k \in {1, n} : \E later \in {0, 1000} :
        /\ k <= n
        /\ InitLimiter(SeqCallers, n, k, later)

NextSeq ==
    \/ \E c \in SeqCallers : Admit(c, SeqAdmits)
    \/ \E c \in SeqCallers : RateLimitWake(c, "admitted")
    \/ TimerTick
    \/ \E d \in LimiterSteps : Tick(d, LimiterTicks)

SpecSeq == InitSeq /\ [][NextSeq]_vars

\* SpecBurst: NumBurst callers call admit() at once while the window is
\* full, and then time passes as far as the next timer.  The callers are
\* alike, so only the runs are followed in which they call in the order of
\* their numbers, and in which timers with the same deadline fire in the
\* order they were set, as the timer lists of Node do.
BurstCallers == 1..NumBurst

Called(c) == pc[c] # "idle"

InOrder(c) == \A b \in BurstCallers : b < c => Called(b)

FiresInOrder(c) == \A b \in BurstCallers : b < c => pc[b] # "rateLimitSleep"

InitBurst ==
    \E n \in {RATE_LIMIT - h : h \in 0..Headroom} : \E later \in {1000, 30000} :
        InitLimiter(BurstCallers, n, 1, later)

NextBurst ==
    \/ \E c \in BurstCallers : InOrder(c) /\ Admit(c, 1)
    \/ \E c \in BurstCallers : FiresInOrder(c) /\ RateLimitWake(c, "admitted")
    \/ (\A c \in BurstCallers : Called(c)) /\ TimerTick

SpecBurst == InitBurst /\ [][NextBurst]_vars

\* SpecBurst with time advancing: the event loop runs a step that is ready,
\* a call, a timer that is due, the continuation of a sleep that is over.
LiveBurst == SpecBurst /\ WF_vars(NextBurst)

----------------------------------------------------------------------------
(* Two calls in flight at once                                             *)

\* The steps of the calls ids when the transport answers with one of resps
\* or fails, and time passes as far as the next timer.
Executor(ids, resps) ==
    \/ \E c \in ids : callFirstPromoterAPI(c)
    \/ \E c \in ids : RateLimitWake(c, "admitted")
    \/ \E c \in ids : Dispatch(c)
    \/ \E c \in ids : FetchRejects(c)
    \/ \E c \in ids, resp \in resps : FetchResolves(c, resp)
    \/ \E c \in ids : JsonSettles(c)
    \/ \E c \in ids : TextResolves(c)
    \/ \E c \in ids : BackoffWake(c)
    \/ TimerTick

PairCalls == {1, 2}

\* The transport of SpecPair answers every request.  Call 1 is the one that
\* may be retried, answered 503 or a 2xx with a JSON body or failed; call
\* 2 is answered at once, with a 2xx or a 404.
PairResponses(c) ==
    IF c = 1
    THEN {Response(200, Null, "{\"id\":42}"), Response(503, Null, "oops")}
    ELSE {Response(200, Null, "{\"id\":42}"), Response(404, Null, "oops")}

InitPair == \E n \in InitFills : InitLimiter(PairCalls, n, n, 0)

NextPair ==
    \/ \E c \in PairCalls : callFirstPromoterAPI(c)
    \/ \E c \in PairCalls : RateLimitWake(c, "admitted")
    \/ \E c \in PairCalls : Dispatch(c)
    \/ \E c \in {1} : FetchRejects(c)
    \/ \E c \in PairCalls : \E resp \in PairResponses(c) : FetchResolves(c, resp)
    \/ \E c \in PairCalls : JsonSettles(c)
    \/ \E c \in PairCalls : TextResolves(c)
    \/ \E c \in PairCalls : BackoffWake(c)
    \/ TimerTick

\* SpecPair: two calls of callFirstPromoterAPI, started at any time and
\* interleaved at their awaits in every way.
SpecPair == InitPair /\ [][NextPair]_vars

----------------------------------------------------------------------------
(* Error classification alone: the last attempt of a call got a failing     *)
(* response, of any status and body, and the error is built from it.        *)

ErrStatuses == {400, 401, 403, 404, 418, 422, 429, 499, 500, 501, 502, 503, 504, 505}

JSONBodies ==
    {"{\"id\":42}", "{ \"id\": 42 }", "{\"error\":\"bad campaign_id\"}",
     "{\"message\":\"gone\"}", "{\"errors\":[\"a\",\"b\"]}",
     "{\"message\":\"m\",\"error\":\"e\",\"errors\":[\"a\"]}",
     "{\"errors\":[\"a\",\"b\"],\"message\":\"m\"}",
     "{\"error\":5,\"message\":\"m\"}", "{\"error\":5}", "{\"errors\":[]}",
     "{\"errors\":[1,2]}", LongJSON, "\"abc\"", "42", "null", " null"}

TextBodies == {"", "oops", "<html>", "{\"error\":", LongText}

ErrBodies == JSONBodies \cup TextBodies

\* The call is reading the error body of its 4th attempt; the three attempts
\* before met transport exceptions at 0, 1000 and 3000 ms.
\* The instants of the passes of a call whose every earlier pass failed in
\* the network at once: 0, 1000, 3000 and 7000 ms.
PassTimes(n) == [i \in 1..n |-> BASE_DELAY_MS * (Pow2(i - 1) - 1)]

\* The state of callFirstPromoterAPI at api.ts:241, reading the body of resp
\* on the pass numbered att, the att passes before it having ended in the
\* catch of api.ts:216-229.
InitAtText(att, resp) ==
    /\ FP_BEARER_TOKEN = "tok"
    /\ FP_ACCOUNT_ID = "acct"
    /\ clock = Last(PassTimes(att + 1))
    /\ ticks = 0
    /\ requestTimestamps = PassTimes(att + 1)
    /\ admitted = PassTimes(att + 1)
    /\ pc = [c \in Calls |-> "text"]
    /\ attempt = [c \in Calls |-> att]
    /\ wakeAt = [c \in Calls |-> Last(PassTimes(att + 1))]
    /\ response = [c \in Calls |-> resp]
    /\ outcomes = [c \in Calls |->
          [i \in 1..(att + 1) |->
              [kind |-> IF i <= att THEN "network" ELSE "response",
               status |-> IF i <= att THEN 0 ELSE resp.status,
               retryAfter |-> IF i <= att THEN Null ELSE resp.retryAfter,
               at |-> PassTimes(att + 1)[i]]]]
    /\ result = [c \in Calls |-> Pending]
    /\ admits = [c \in Calls |-> PassTimes(att + 1)]
    /\ dispatches = [c \in Calls |-> PassTimes(att + 1)]
    /\ delays = [c \in Calls |-> [i \in 1..att |-> ToMillis(BASE_DELAY_MS * Pow2(i - 1))]]
    /\ log = [c \in Calls |->
          [i \in 1..(3 * att + 1) |->
              IF i % 3 = 1 THEN LogEntry("debug", "API request")
              ELSE IF i % 3 = 2 THEN LogEntry("error", "API network error")
              ELSE LogEntry("warn", "retrying")]]
    /\ options = [c \in Calls |-> DefaultOptions]
    /\ target = [c \in Calls |-> Target(BuildUrl(DefaultOptions), MethodOf(DefaultOptions))]
    /\ requests = [c \in Calls |->
                     [i \in 1..(att + 1) |->
                        Request(Target(BuildUrl(DefaultOptions), MethodOf(DefaultOptions)),
                                DefaultOptions)]]
    /\ toolResult = [c \in Calls |-> NoToolResult]

InitErr ==
    \E st \in ErrStatuses, body \in ErrBodies :
        InitAtText(MAX_RETRIES, Response(st, Null, body))

NextErr == \E c \in Calls : TextResolves(c)

SpecErr == InitErr /\ [][NextErr]_vars

----------------------------------------------------------------------------
(* The retry delay alone: a retryable response with every kind of          *)
(* Retry-After header, on every pass that can still be retried.            *)

RetryAfterHeaders ==
    {Null, Str(""), Str("0"), Str("-5"), Str("2"), Str(" 7"), Str("1.5"),
     Str("3s"), Str("abc"), Str("2147484")}

RetryableStatuses == {429, 500, 502, 503, 504}

InitDelay ==
    \E att \in 0..(MAX_RETRIES - 1), st \in RetryableStatuses, h \in RetryAfterHeaders :
        InitAtText(att, Response(st, h, "oops"))

NextDelay == \E c \in Calls : TextResolves(c)

SpecDelay == InitDelay /\ [][NextDelay]_vars

----------------------------------------------------------------------------
(* The request of every attempt: calls with and without a method, a body   *)
(* and query parameters, against a transport that fails and recovers.      *)

NewPromoter == JObject(<<"email">>, [email |-> JString("a@b.c")])

ReqOptions ==
    {DefaultOptions,
     Options("/promoters", Undefined, Undefined,
             Some(<<<<"q", "a b&c">>, <<"page", "2">>>>)),
     Options("/promoters", Undefined, Undefined, Some(<<>>)),
     Options("/promo_codes/7", Some("DELETE"), Undefined, Undefined),
     Options("/promoters", Some("POST"), Some(NewPromoter), Undefined),
     Options("/promoters/42", Some("PUT"), Some(NewPromoter),
             Some(<<<<"find_by", "email">>>>))}

ReqResponses ==
    {Response(200, Null, "{ \"id\": 42 }"), Response(503, Null, "oops"),
     Response(404, Null, "oops")}

InitReq ==
    /\ FP_BEARER_TOKEN = "tok"
    /\ FP_ACCOUNT_ID = "acct"
    /\ clock = 0
    /\ ticks = 0
    /\ \E n \in {0, RATE_LIMIT} :
          /\ requestTimestamps = InitWindow(n)
          /\ admitted = InitWindow(n)
    /\ \E opts \in ReqOptions : InitCallsWith(Calls, opts)

NextReq == Executor(Calls, ReqResponses)

SpecReq == InitReq /\ [][NextReq]_vars

----------------------------------------------------------------------------
(* The archive_promo_code tool: its handler awaits one DELETE call and     *)
(* turns the way the call ended into the result of the tool.               *)

\* String.prototype.includes
Includes(str, sub) ==
    \E i \in 1..(Len(str) - Len(sub) + 1) : SubSeq(str, i, i + Len(sub) - 1) = sub

\* args.id, and the call the handler makes with it.
ArchiveId == "7"

ArchiveOptions == Options("/promo_codes/" \o ArchiveId, Some("DELETE"), Undefined, Undefined)

ArchivedText == "Promo code " \o ArchiveId \o " archived successfully."

ToolResult(isError, text) == [returned |-> TRUE, isError |-> isError, text |-> text]

\* The handler from the end of its await on: the inner catch takes an
\* exception whose message holds "JSON" or "Unexpected end" for an empty 2xx
\* body and reports success, any other exception reaches the outer catch.
\* Of the text of the success with a body only the summary line is kept.
archive_promo_code(c) ==
    /\ pc[c] = "done"
    /\ ~toolResult[c].returned
    /\ LET r == result[c]
       IN  toolResult' = [toolResult EXCEPT ![c] =
              IF r.kind = "value"
              THEN ToolResult(FALSE, ArchivedText)
              ELSE IF Includes(r.message, "JSON") \/ Includes(r.message, "Unexpected end")
                   THEN ToolResult(FALSE, ArchivedText)
                   ELSE ToolResult(TRUE, "Error archiving promo code: " \o r.message)]
    /\ UNCHANGED <<options, target, requests, FP_BEARER_TOKEN,
                   FP_ACCOUNT_ID, clock, ticks, requestTimestamps,
                   admitted, pc, attempt, wakeAt, response, result, admits,
                   dispatches, delays, outcomes, log>>

\* The answers of the upstream to the DELETE.
ArchiveResponses ==
    {Response(200, Null, "{\"id\":42}"), Response(200, Null, ""),
     Response(204, Null, ""),
     Response(403, Null, "oops"), Response(404, Null, "{\"message\":\"gone\"}"),
     Response(404, Null, "<html>404</html>"),
     Response(422, Null, "Invalid JSON"),
     Response(422, Null, "{\"error\":\"bad campaign_id\"}"),
     Response(500, Null, "Unexpected end of file"), Response(503, Null, "oops")}

InitArchive ==
    /\ \E creds \in {<<"tok", "acct">>, <<"", "acct">>} :
          /\ FP_BEARER_TOKEN = creds[1]
          /\ FP_ACCOUNT_ID = creds[2]
    /\ clock = 0
    /\ ticks = 0
    /\ \E n \in {0, RATE_LIMIT} :
          /\ requestTimestamps = InitWindow(n)
          /\ admitted = InitWindow(n)
    /\ InitCallsWith(Calls, ArchiveOptions)

NextArchive ==
    \/ Executor(Calls, ArchiveResponses)
    \/ \E c \in Calls : archive_promo_code(c)

SpecArchive == InitArchive /\ [][NextArchive]_vars

----------------------------------------------------------------------------
(* Properties                                                              *)

\* The attempts of call c that ended with a whole HTTP response.
AllResponses(c) ==
    \A i \in 1..Len(outcomes[c]) : outcomes[c][i].kind = "response"

StartsWith(s, prefix) ==
    Len(s) >= Len(prefix) /\ SubSeq(s, 1, Len(prefix)) = prefix

\* C1: a call makes at most 4 HTTP attempts whatever the transport answers;
\* when every attempt fails with a retryable status (429, 500..504) exactly 4
\* attempts are made and the call ends with a FirstPromoterAPIError that
\* carries the last status, the server-error one for a status in 500..504.
C1_RetryCeiling ==
    \A c \in DOMAIN pc :
        /\ Len(dispatches[c]) <= 4
        /\ ( /\ pc[c] = "done"
             /\ outcomes[c] # <<>>
             /\ AllResponses(c)
             /\ \A i \in 1..Len(outcomes[c]) :
                   \/ outcomes[c][i].status = 429
                   \/ outcomes[c][i].status \in 500..504 )
           => /\ Len(dispatches[c]) = 4
              /\ Len(outcomes[c]) = 4
              /\ result[c].kind = "FirstPromoterAPIError"
              /\ result[c].statusCode = {Last(outcomes[c]).status}
              /\ Last(outcomes[c]).status \in 500..504
                    => StartsWith(result[c].message, "FirstPromoter server error (")

\* C1's case: four attempts, each answered 503, and the call has ended.
C1_Witness ==
    \E c \in DOMAIN pc :
        /\ pc[c] = "done"
        /\ Len(dispatches[c]) = 4
        /\ \A i \in 1..4 : outcomes[c][i].kind = "response" /\ outcomes[c][i].status = 503
        /\ result[c].kind = "FirstPromoterAPIError"
        /\ result[c].statusCode = {503}

AdmittedIn(from, to) ==
    Cardinality({i \in 1..Len(admitted) : admitted[i] >= from /\ admitted[i] <= to})

\* The times at which an admission was recorded.
AdmissionTimes == {admitted[i] : i \in 1..Len(admitted)}

\* C3: with callers that call admit() one after another, at every moment at
\* most 380 recorded admissions lie in the trailing 60,000 ms.
C3_TrailingWindow == AdmittedIn(clock - 60000, clock) <= 380

\* C3's case: the limiter made a caller wait, the caller is admitted, more
\* than 380 admissions are recorded in all and the trailing window is full.
C3_Witness ==
    /\ Len(admitted) > 380
    /\ AdmittedIn(clock - 60000, clock) = 380
    /\ \E c \in DOMAIN pc :
          /\ pc[c] = "admitted"
          /\ log[c] # <<>>
          /\ Last(admits[c]) = clock

\* C4 as stated: with back-to-back admit() calls no window of 61 seconds
\* holds more than 380 admitted timestamps.
C4_Window61s ==
    \A a \in AdmissionTimes : AdmittedIn(a, a + 61000) <= 380

\* C4 as amended: with back-to-back admit() calls no window of 60 seconds
\* (60,000 ms, its ends included) holds more than 380 admitted timestamps.
C4_Window60s ==
    \A a \in AdmissionTimes : AdmittedIn(a, a + 60000) <= 380

\* C4's case: more than 380 admissions are recorded, the last of them after
\* a wait, and a window of 60 seconds that starts at an admission is full.
C4_Witness ==
    /\ Len(admitted) > 380
    /\ \E a \in AdmissionTimes : a > 0 /\ AdmittedIn(a, a + 60000) = 380
    /\ \E c \in DOMAIN pc : pc[c] = "admitted" /\ log[c] # <<>>

\* C5 as stated: whatever the number of concurrent callers, the admissions
\* recorded in the trailing 60 seconds stay within the upstream limit of 400.
C5_UnderUpstreamLimit == AdmittedIn(clock - 60000, clock) <= UPSTREAM_LIMIT

\* C6: with the bearer token or the account id empty the call fails with
\* the configuration error before anything else: no transport call, no
\* timestamp in the RateWindow, no log line, no retry.
C6_CredentialGate ==
    (FP_BEARER_TOKEN = "" \/ FP_ACCOUNT_ID = "") =>
        \A c \in DOMAIN pc :
            /\ pc[c] \in {"idle", "done"}
            /\ dispatches[c] = <<>>
            /\ admits[c] = <<>>
            /\ delays[c] = <<>>
            /\ outcomes[c] = <<>>
            /\ log[c] = <<>>
            /\ requestTimestamps = admitted
            /\ Len(admitted) \in InitFills
            /\ pc[c] = "done"
                  => /\ result[c].kind = "Error"
                     /\ StartsWith(result[c].message, "FirstPromoter credentials not configured")

\* C6's case: a call made with an empty credential has ended.
C6_Witness ==
    /\ FP_BEARER_TOKEN = "" \/ FP_ACCOUNT_ID = ""
    /\ \E c \in DOMAIN pc : pc[c] = "done" /\ result[c].kind = "Error"

\* C7: every attempt, the first and every retry, passes admit() first: the
\* timestamps a call has pushed and the requests it has dispatched go one
\* admission, then its dispatch, and at the end of the call they are as many.
C7_AdmitBeforeDispatch ==
    \A c \in DOMAIN pc :
        /\ Len(dispatches[c]) <= Len(admits[c])
        /\ Len(admits[c]) <= Len(dispatches[c]) + 1
        /\ Len(admits[c]) = Len(dispatches[c]) + 1 => pc[c] = "admitted"
        /\ pc[c] = "done" => Len(admits[c]) = Len(dispatches[c])
        /\ \A i \in 1..Len(dispatches[c]) : admits[c][i] <= dispatches[c][i]
        /\ \A i \in 2..Len(admits[c]) : dispatches[c][i - 1] <= admits[c][i]

\* C7's case: a call that retried three times has ended.
C7_Witness ==
    \E c \in DOMAIN pc :
        /\ pc[c] = "done"
        /\ Len(dispatches[c]) = 4
        /\ Len(admits[c]) = 4

\* C8: after a transport exception, or a response with no Retry-After
\* header or one that is no integer, the backoff delay is 1000 * 2^attempt
\* ms: 1000, 2000 and 4000 ms after attempts 0, 1 and 2.
C8_ExponentialBackoff ==
    \A c \in DOMAIN pc :
        \A i \in 1..Len(delays[c]) :
            LET o == outcomes[c][i]
            IN  ( \/ o.kind = "network"
                  \/ ~o.retryAfter.has
                  \/ o.retryAfter.value = "abc" )
                => /\ i \in 1..3
                   /\ delays[c][i] = Millis(<<1, 2, 4>>[i], 0)
                   /\ sleep(delays[c][i]) = <<1000, 2000, 4000>>[i]

\* C8's case: three retries, the first after a transport exception, the
\* second after a header that is no integer, the third after no header.
C8_Witness ==
    \E c \in DOMAIN pc :
        /\ Len(delays[c]) = 3
        /\ outcomes[c][1].kind = "network"
        /\ outcomes[c][2].kind = "response" /\ outcomes[c][2].retryAfter = Str("abc")
        /\ outcomes[c][3].kind = "response" /\ ~outcomes[c][3].retryAfter.has
        /\ Len(dispatches[c]) = 4

\* The Retry-After values of the model that are integers, and their value.
IntegerHeaders == {"2", "0", "2147484"}

HeaderSeconds(v) == CASE v = "2" -> 2 [] v = "0" -> 0 [] v = "2147484" -> 2147484

\* C9 as stated: after a retryable response whose Retry-After header is the
\* integer N the delay is N * 1000 ms, and the next attempt of the call is
\* dispatched no sooner than N * 1000 ms after the failing response.
C9_RetryAfterHonoured ==
    \A c \in DOMAIN pc :
        \A i \in 1..Len(delays[c]) :
            LET o == outcomes[c][i]
            IN  (o.kind = "response" /\ o.retryAfter.has /\ o.retryAfter.value \in IntegerHeaders)
                => /\ delays[c][i] = Millis(HeaderSeconds(o.retryAfter.value), 0)
                   /\ Len(dispatches[c]) > i
                         => (dispatches[c][i + 1] - o.at) \div 1000
                               >= HeaderSeconds(o.retryAfter.value)

\* C10 as stated: a 2xx response ends the call with the parsed JSON body as
\* its result; no attempt, backoff sleep or error follows it.
C10_SuccessPassthrough ==
    \A c \in DOMAIN pc :
        outcomes[c] # <<>> =>
            LET o == Last(outcomes[c])
            IN  (o.kind = "response" /\ o.status >= 200 /\ o.status <= 299)
                => /\ pc[c] \in {"json", "done"}
                   /\ Len(dispatches[c]) = Len(outcomes[c])
                   /\ Len(admits[c]) = Len(outcomes[c])
                   /\ Len(delays[c]) = Len(outcomes[c]) - 1
                   /\ pc[c] = "done" => result[c].kind = "value"

\* The lines of the log of call c that say what.
LogCount(c, what) == Cardinality({i \in 1..Len(log[c]) : log[c][i].what = what})

Is2xx(status) == status >= 200 /\ status <= 299

\* C11 as stated: when the first k attempts (k in 0..3) end in a retryable
\* failure and attempt k+1 is answered 2xx, the call returns that body after
\* exactly k+1 attempts, k+1 admissions and k retry warnings.
C11_RetryThenSuccess ==
    \A c \in DOMAIN pc :
        ( /\ pc[c] = "done"
          /\ outcomes[c] # <<>>
          /\ Last(outcomes[c]).kind = "response"
          /\ Is2xx(Last(outcomes[c]).status) )
        => LET k == Len(outcomes[c]) - 1
           IN  /\ k \in 0..3
               /\ result[c].kind = "value"
               /\ result[c].value = Some(JSONParse(response[c].body).value)
               /\ Len(dispatches[c]) = k + 1
               /\ Len(admits[c]) = k + 1
               /\ LogCount(c, "retrying") = k

\* C12: when the 4th attempt fails, the error of the call is built from that
\* attempt alone: status code, message and detail of its response, or the
\* wrapped network error when it met a transport exception.
C12_LastFailureOnly ==
    \A c \in DOMAIN pc :
        (pc[c] = "done" /\ Len(outcomes[c]) = 4) =>
            LET o == outcomes[c][4]
            IN  /\ (o.kind = "response" /\ ~Is2xx(o.status))
                      => /\ response[c].status = o.status
                         /\ result[c].kind = "FirstPromoterAPIError"
                         /\ result[c].statusCode = Some(o.status)
                         /\ result[c].message = buildErrorMessage(o.status, response[c].body)
                         /\ result[c].detail = Some(parseErrorDetail(response[c].body))
                         /\ o.status \in 500..504
                               => StartsWith(result[c].message,
                                      "FirstPromoter server error (" \o ToString(o.status))
                         /\ o.status = 429
                               => StartsWith(result[c].message, "Rate limit exceeded")
                /\ o.kind = "network"
                      => /\ result[c].kind = "Error"
                         /\ StartsWith(result[c].message, "Network error calling FirstPromoter API")
                         /\ result[c].statusCode = Undefined

\* C12's case: a 429, two transport exceptions or other statuses, then a
\* 504 with another body; the call has ended with the error of the 504.
C12_Witness ==
    \E c \in DOMAIN pc :
        /\ pc[c] = "done"
        /\ Len(outcomes[c]) = 4
        /\ outcomes[c][1].kind = "response" /\ outcomes[c][1].status = 429
        /\ outcomes[c][4].kind = "response" /\ outcomes[c][4].status = 504
        /\ result[c].statusCode = Some(504)
        /\ result[c].detail = Some("oops")

C14_StatusCodeCarried ==
    \A c \in DOMAIN pc :
        (pc[c] = "done" /\ outcomes[c] # <<>>) =>
            LET o == Last(outcomes[c])
            IN  /\ (o.kind = "response" /\ ~Is2xx(o.status))
                      => result[c].statusCode = Some(o.status)
                /\ o.kind \in {"network", "aborted"} => result[c].statusCode = Undefined
                /\ result[c].kind = "FirstPromoterAPIError"
                      => /\ o.kind = "response"
                         /\ result[c].statusCode = Some(o.status)

\* C14's case: a call answered 505 has ended with an error carrying 505.
C14_Witness ==
    \E c \in DOMAIN pc :
        /\ pc[c] = "done"
        /\ outcomes[c] # <<>>
        /\ Last(outcomes[c]).kind = "response" /\ Last(outcomes[c]).status = 505
        /\ result[c].statusCode = Some(505)

\* The transport exception of the 4th attempt ends a call with an error
\* that has no status code.
NetworkErrorReached ==
    \E c \in DOMAIN pc :
        /\ pc[c] = "done"
        /\ Len(outcomes[c]) = 4
        /\ outcomes[c][4].kind = "network"
        /\ result[c].statusCode = Undefined

\* The detail an error carries.
DetailOf(r) == CHOOSE d \in r.detail : TRUE

Suffixed(prefix, detail) == IF detail # "" THEN prefix \o " - " \o detail ELSE prefix

StatedDetail(raw) ==
    LET p == JSONParse(raw)
    IN  IF ~p.ok THEN Slice(raw, 200)
        ELSE IF IsStringField(p.value, "error") THEN p.value.v["error"].v
        ELSE IF IsStringField(p.value, "message") THEN p.value.v["message"].v
        ELSE IF IsArrayField(p.value, "errors")
             THEN JoinElements(p.value.v["errors"].v, "; ")
        ELSE Slice(JSONStringify(p.value), 200)

\* What the detail is for some bodies, written out.
DetailExamples(raw, d) ==
    /\ raw = "{\"error\":\"bad campaign_id\"}" => d = "bad campaign_id"
    /\ raw = "oops" => d = "oops"
    /\ raw = LongText => d = Repeat("x", 200)
    /\ raw = "{\"message\":\"m\",\"error\":\"e\",\"errors\":[\"a\"]}" => d = "e"
    /\ raw = "{\"errors\":[\"a\",\"b\"],\"message\":\"m\"}" => d = "m"
    /\ raw = "{\"error\":5,\"message\":\"m\"}" => d = "m"
    /\ raw = "{\"errors\":[\"a\",\"b\"]}" => d = "a; b"
    /\ raw = "{ \"id\": 42 }" => d = "{\"id\":42}"
    /\ raw = LongJSON => d = "{\"note\":\"" \o Repeat("x", 191)
    /\ Len(d) <= 200

C17_EventuallyAdmitted ==
    \A c \in BurstCallers :
        [](pc[c] = "rateLimitSleep"
              => <>(pc[c] = "admitted" /\ Len(admits[c]) = 1 /\ result[c] = Pending))

\* C17's case: a caller that had to wait has been admitted.
C17_Witness ==
    \E c \in DOMAIN pc :
        /\ LogCount(c, "rate limiter pausing") = 1
        /\ pc[c] = "admitted"
        /\ admits[c] = <<wakeAt[c]>>

\* Every timestamp of ts lies within [now - 60000, now].
InWindow(ts, now) ==
    \A i \in 1..Len(ts) : ts[i] >= now - RATE_WINDOW_MS /\ ts[i] <= now

\* C18 as stated: whenever admit() evaluates the ceiling check, and whenever
\* it records a timestamp, all timestamps of the RateWindow lie within
\* [now - 60000, now].
C18_WindowFresh ==
    [][ \A c \in DOMAIN pc :
           ( \/ pc[c] # "rateLimitSleep" /\ pc'[c] = "rateLimitSleep"
             \/ Len(admits'[c]) = Len(admits[c]) + 1 )
           => InWindow(requestTimestamps', clock') ]_vars

\* C19 as stated: a caller that waited records its timestamp only after
\* pruning the window again and finding it below the ceiling.
C19_RecheckAfterWake ==
    [][ \A c \in DOMAIN pc :
           (pc[c] = "rateLimitSleep" /\ pc'[c] # "rateLimitSleep")
           => LET pruned == Prune(requestTimestamps, clock')
              IN  /\ ~AtLimit(pruned)
                  /\ requestTimestamps' = Append(pruned, clock') ]_vars

\* C20: a call of admit() waits exactly when the pruned window holds 380
\* timestamps or more; the wait is (oldest kept timestamp + 60000) - now + 50
\* ms and lies in 50..60050; below the ceiling the timestamp is recorded at
\* once.
C20_WaitFormula ==
    [][ \A c \in DOMAIN pc :
           LET pruned == Prune(requestTimestamps, clock)
               waits  == pc'[c] = "rateLimitSleep"
               pushes == Len(admits'[c]) = Len(admits[c]) + 1
           IN  (pc[c] \in {"idle", "admitted"} /\ (waits \/ pushes))
               => /\ waits <=> Len(pruned) >= 380
                  /\ waits => /\ wakeAt'[c] - clock = pruned[1] + 60000 - clock + 50
                              /\ wakeAt'[c] - clock \in 50..60050
                              /\ ~pushes
                  /\ pushes => /\ Last(admits'[c]) = clock
                               /\ clock' = clock
                               /\ wakeAt'[c] = wakeAt[c] ]_vars

\* C20's case: a caller waits the shortest wait, the oldest timestamp being
\* 60000 ms old.
C20_Witness ==
    \E c \in DOMAIN pc :
        /\ pc[c] = "rateLimitSleep"
        /\ Len(requestTimestamps) >= 380
        /\ requestTimestamps[1] = clock - 60000
        /\ wakeAt[c] = clock + 50

\* The callers that found the window at the ceiling, waited, and have
\* recorded their timestamp.
WaitedAndRecorded ==
    {c \in DOMAIN pc : LogCount(c, "rate limiter pausing") >= 1 /\ Len(admits[c]) >= 1}

\* C21: admit() is not atomic over its wait.  Two callers that both found
\* the window at the ceiling and both waited both record a timestamp, and
\* the trailing 60 s window then holds more than 380 admissions.
C21_RaceExceedsCeiling ==
    Cardinality(WaitedAndRecorded) >= 2
        => AdmittedIn(clock - RATE_WINDOW_MS, clock) > RATE_LIMIT

\* C21's case: the interleaving is reachable.
C21_Witness ==
    /\ \E c, d \in DOMAIN pc :
          /\ c # d
          /\ {c, d} \subseteq WaitedAndRecorded
          /\ wakeAt[c] = wakeAt[d]
          /\ admits[c] = admits[d]
    /\ AdmittedIn(clock - RATE_WINDOW_MS, clock) > RATE_LIMIT

\* The logger calls of call c that the executor made itself, those of the
\* rate limiter left out.
ExecutorLog(c) == SelectSeq(log[c], LAMBDA e : e.what # "rate limiter pausing")

\* The lines one attempt adds after its request line.  retried: a backoff
\* sleep followed the attempt.  stated: as the sentence on logging has it,
\* an error line for the failure that ends the call only.
OutcomeLines(o, retried, stated) ==
    CASE o.kind = "response" /\ Is2xx(o.status) -> <<LogEntry("debug", "API response")>>
      [] o.kind = "response" /\ ~Is2xx(o.status) ->
            IF retried THEN <<LogEntry("warn", "retrying")>>
            ELSE <<LogEntry("error", "API error")>>
      [] o.kind = "network" ->
            IF stated
            THEN IF retried THEN <<LogEntry("warn", "retrying")>>
                 ELSE <<LogEntry("error", "API network error")>>
            ELSE IF retried
                 THEN <<LogEntry("error", "API network error"), LogEntry("warn", "retrying")>>
                 ELSE <<LogEntry("error", "API network error")>>
      [] o.kind = "aborted" ->
            IF Is2xx(o.status) THEN <<LogEntry("debug", "API response")>>
            ELSE IF stated THEN <<LogEntry("error", "API error")>>
            ELSE <<>>

\* The lines of the first n attempts of call c, the last of them retried
\* or not.
RECURSIVE AttemptLines(_, _, _, _)
AttemptLines(c, n, lastRetried, stated) ==
    IF n = 0 THEN <<>>
    ELSE AttemptLines(c, n - 1, TRUE, stated)
            \o <<LogEntry("debug", "API request")>>
            \o OutcomeLines(outcomes[c][n], lastRetried, stated)

\* C22 as stated: per attempt a debug line at dispatch, then one line: debug
\* on success, warn before the backoff sleep of a retry, error for the
\* failure that ends the call, and no error line for a retried attempt.
C22_LogSequence ==
    \A c \in DOMAIN pc :
        pc[c] \in {"done", "backoff"}
            => ExecutorLog(c) = AttemptLines(c, Len(outcomes[c]), pc[c] = "backoff", TRUE)

\* C22: per attempt a debug line at dispatch; then a debug line for a 2xx
\* response, a warn line before the backoff sleep of a retried HTTP failure,
\* an error line for the HTTP failure that ends the call, and for a
\* transport exception an error line, followed by the warn line when the
\* attempt is retried; an attempt whose error body cannot be read adds no
\* line.
C22_LogSequenceNetworkError ==
    \A c \in DOMAIN pc :
        /\ pc[c] \in {"done", "backoff"}
              => ExecutorLog(c) = AttemptLines(c, Len(outcomes[c]), pc[c] = "backoff", FALSE)
        /\ pc[c] = "backoff" => Last(log[c]) = LogEntry("warn", "retrying")
        /\ LogCount(c, "API request") = Len(dispatches[c])

\* C22's case: a transport exception was retried, then an HTTP failure was
\* retried, then the call ended with a 2xx.
C22_Witness ==
    \E c \in DOMAIN pc :
        /\ pc[c] = "done"
        /\ Len(outcomes[c]) = 3
        /\ outcomes[c][1].kind = "network"
        /\ outcomes[c][2].kind = "response" /\ outcomes[c][2].status = 503
        /\ outcomes[c][3].kind = "response" /\ outcomes[c][3].status = 200
        /\ result[c].kind = "value"
        /\ ExecutorLog(c) =
              <<LogEntry("debug", "API request"), LogEntry("error", "API network error"),
                LogEntry("warn", "retrying"),
                LogEntry("debug", "API request"), LogEntry("warn", "retrying"),
                LogEntry("debug", "API request"), LogEntry("debug", "API response")>>

\* The passes of the retry loop call c has begun.
PassesOf(c) == Len(admits[c]) + (IF pc[c] = "rateLimitSleep" THEN 1 ELSE 0)

\* An attempt that ended this way is retried while retries are left.
RetryableOutcome(o) ==
    \/ o.kind = "network"
    \/ o.kind = "response" /\ (o.status = 429 \/ o.status \in 500..504)

\* The backoff delay after attempt number i (from 1) that ended as o.
DelayAfter(i, o) ==
    IF o.kind = "network" THEN ToMillis(BASE_DELAY_MS * Pow2(i - 1))
    ELSE getRetryDelay(i - 1, Response(o.status, o.retryAfter, ""))

\* What the caller of c gets, from the last attempt of c alone.
ResultAfter(o, resp) ==
    CASE o.kind = "network" ->
            Error("Error", "Network error calling FirstPromoter API: fetch failed")
      [] o.kind = "response" /\ Is2xx(o.status) ->
            IF JSONParse(resp.body).ok THEN Returned(JSONParse(resp.body).value)
            ELSE Error("SyntaxError", "Unexpected end of JSON input")
      [] o.kind = "response" /\ ~Is2xx(o.status) ->
            FirstPromoterAPIError(buildErrorMessage(o.status, resp.body), o.status,
                                  parseErrorDetail(resp.body))

\* C23: with two calls interleaved in every way, the attempt counter, the
\* backoff delays and the outcome of each call follow from the answers to
\* its own attempts: the other call's failures and retries change neither
\* its number of attempts (at most 4) nor its result.
C23_CallsIndependent ==
    \A c \in DOMAIN pc :
        /\ Len(dispatches[c]) <= 4
        /\ pc[c] \notin {"idle", "done"} => attempt[c] = PassesOf(c) - 1
        /\ pc[c] = "done" => attempt[c] = Len(outcomes[c]) - 1
        /\ Len(delays[c]) \in {Len(outcomes[c]) - 1, Len(outcomes[c])}
        /\ \A i \in 1..Len(delays[c]) :
              /\ RetryableOutcome(outcomes[c][i])
              /\ delays[c][i] = DelayAfter(i, outcomes[c][i])
        /\ pc[c] = "done"
              => /\ Len(dispatches[c]) = Len(outcomes[c])
                 /\ Len(delays[c]) = Len(outcomes[c]) - 1
                 /\ RetryableOutcome(Last(outcomes[c])) => Len(outcomes[c]) = 4
                 /\ Last(outcomes[c]).kind = "response"
                       => response[c].status = Last(outcomes[c]).status
                 /\ result[c] = ResultAfter(Last(outcomes[c]), response[c])

\* C23's case: call 2 was answered 2xx on its only attempt, made while
\* call 1 was between its first and its fourth failing attempt; both have
\* ended.
C23_Witness ==
    /\ DOMAIN pc = {1, 2}
    /\ pc[1] = "done" /\ pc[2] = "done"
    /\ Len(outcomes[1]) = 4 /\ result[1].kind \in {"FirstPromoterAPIError", "Error"}
    /\ Len(outcomes[2]) = 1 /\ result[2].kind = "value"
    /\ dispatches[1][1] < dispatches[2][1]
    /\ dispatches[2][1] < dispatches[1][4]

\* C24: a call ends, with a value or an error, when time advances and the
\* transport answers or fails every request; on the way it passes at most 4
\* admissions, 4 dispatches and 3 backoff sleeps, and it never ends with
\* the error that follows the retry loop.
C24_CallCompletes ==
    /\ \A c \in Calls : <>(pc[c] = "done" /\ result[c] # Pending)
    /\ [](\A c \in Calls :
             /\ Len(admits[c]) <= 4
             /\ Len(dispatches[c]) <= 4
             /\ Len(delays[c]) <= 3
             /\ ~StartsWith(result[c].message, "Unexpected: retry loop exited"))

\* C24's case: a call that used all 4 admissions, 4 dispatches and 3
\* backoff sleeps has ended.
C24_Witness ==
    \E c \in DOMAIN pc :
        /\ pc[c] = "done"
        /\ Len(admits[c]) = 4
        /\ Len(dispatches[c]) = 4
        /\ Len(delays[c]) = 3
        /\ LogCount(c, "rate limiter pausing") >= 1

\* C25: the 4th failed attempt is followed by no backoff sleep and no retry
\* warning: the call that exhausts its retries has slept for backoff 3
\* times, 1000 + 2000 + 4000 = 7000 ms when no response carried Retry-After.
C25_NoSleepAfterLast ==
    \A c \in DOMAIN pc :
        Len(outcomes[c]) = 4 =>
            /\ pc[c] \in {"text", "json", "done"}
            /\ Len(delays[c]) = 3
            /\ LogCount(c, "retrying") = 3
            /\ (pc[c] = "done" /\ Last(outcomes[c]).kind \in {"network", "response"})
                  => Last(log[c]).what # "retrying"
            /\ (\A i \in 1..3 : ~outcomes[c][i].retryAfter.has)
                  => sleep(delays[c][1]) + sleep(delays[c][2]) + sleep(delays[c][3]) = 7000

\* C25's case: four failures without a Retry-After header, the last one an
\* HTTP failure, and the call has ended with its error, 7000 ms after its
\* first attempt failed.
C25_Witness ==
    \E c \in DOMAIN pc :
        /\ pc[c] = "done"
        /\ Len(outcomes[c]) = 4
        /\ \A i \in 1..4 : ~outcomes[c][i].retryAfter.has
        /\ outcomes[c][4].kind = "response" /\ outcomes[c][4].status = 503
        /\ result[c].kind = "FirstPromoterAPIError"
        /\ Last(log[c]) = LogEntry("error", "API error")
        /\ outcomes[c][4].at - outcomes[c][1].at = 7000

\* C26 as stated: with callers that use admit() one after another the
\* RateWindow never holds more than 380 timestamps.
C26_WindowBounded == Len(requestTimestamps) <= RATE_LIMIT

\* ts is in non-decreasing order.
Sorted(ts) == \A i \in 1..(Len(ts) - 1) : ts[i] <= ts[i + 1]

\* ts is the end of old, from some index on.
IsSuffix(ts, old) ==
    /\ Len(ts) <= Len(old)
    /\ ts = SubSeq(old, Len(old) - Len(ts) + 1, Len(old))

\* C27: with callers interleaved in any way and a clock that does not go
\* back, the RateWindow is in non-decreasing order in every state, and the
\* prune of a call of admit() removes from the front exactly the timestamps
\* older than now - 60000: none of them is left, none younger is removed.
C27_SortedWindow ==
    /\ []Sorted(requestTimestamps)
    /\ [][ \A c \in DOMAIN pc :
              ( /\ pc[c] \in {"idle", "admitted", "backoff"}
                /\ \/ pc'[c] = "rateLimitSleep"
                   \/ Len(admits'[c]) = Len(admits[c]) + 1 )
              => LET kept == IF pc'[c] = "rateLimitSleep" THEN requestTimestamps'
                             ELSE SubSeq(requestTimestamps', 1, Len(requestTimestamps') - 1)
                 IN  /\ IsSuffix(kept, requestTimestamps)
                     /\ \A i \in 1..Len(kept) : kept[i] >= clock - RATE_WINDOW_MS
                     /\ \A i \in 1..(Len(requestTimestamps) - Len(kept)) :
                           requestTimestamps[i] < clock - RATE_WINDOW_MS ]_vars

\* C27's case: a call of admit() has pruned two timestamps or more, all the
\* old ones, and the window holds what the two calls recorded since.
C27_Witness ==
    /\ Len(admitted) > Len(requestTimestamps) + 1
    /\ Len(requestTimestamps) >= 2
    /\ Sorted(requestTimestamps)
    /\ requestTimestamps[1] >= clock - RATE_WINDOW_MS
    /\ \E c, d \in DOMAIN pc : c # d /\ admits[c] # <<>> /\ admits[d] # <<>>

\* A positive number of milliseconds.
Positive(ms) == ms.q > 0 \/ (ms.q = 0 /\ ms.r > 0)

\* The headers of RetryAfterHeaders that parseInt reads as an integer that is
\* zero or negative, with that integer.
NonPositiveSeconds == [x \in {"0", "-5"} |-> IF x = "0" THEN 0 ELSE -5]

\* C28, as stated: the delay computed before a retry is a positive number of
\* milliseconds, whatever the Retry-After header of the failing response.
C28_DelayPositive ==
    \A c \in DOMAIN delays : \A i \in 1..Len(delays[c]) : Positive(delays[c][i])

\* C28, amended: the delay computed before a retry is positive unless the
\* failing response carries a Retry-After header that parses to an integer N
\* that is zero or negative; the delay is then N * 1000 ms, which is not
\* positive.
C28_DelayPositiveUnlessHeader ==
    \A c \in DOMAIN delays : \A i \in 1..Len(delays[c]) :
        LET o == outcomes[c][i]
            h == o.retryAfter
        IN  IF o.kind = "response" /\ h.has /\ h.value \in DOMAIN NonPositiveSeconds
            THEN /\ delays[c][i] = Millis(NonPositiveSeconds[h.value], 0)
                 /\ ~Positive(delays[c][i])
            ELSE Positive(delays[c][i])

C28_Witness ==
    \E c \in DOMAIN delays :
        /\ Len(delays[c]) = 2
        /\ outcomes[c][2].kind = "response"
        /\ outcomes[c][2].retryAfter = Str("-5")
        /\ delays[c][2] = Millis(-5, 0)
        /\ pc[c] = "backoff"

\* C29: every attempt of a call dispatches the same request: the URL is the
\* base, the endpoint and the encoded query, the method is the one given or
\* GET, the body is the JSON text of the body given or absent, and the three
\* headers are the bearer token, the account id and application/json.
C29_SameRequest ==
    \A c \in DOMAIN requests : \A i \in 1..Len(requests[c]) :
        LET req  == requests[c][i]
            opts == options[c]
        IN  /\ req = requests[c][1]
            /\ StartsWith(req.url, FP_API_BASE \o opts.endpoint)
            /\ opts.queryParams = Undefined => req.url = FP_API_BASE \o opts.endpoint
            /\ opts.queryParams = Some(<<<<"q", "a b&c">>, <<"page", "2">>>>)
                  => req.url = FP_API_BASE \o opts.endpoint \o "?q=a+b%26c&page=2"
            /\ opts.queryParams = Some(<<>>) => req.url = FP_API_BASE \o opts.endpoint \o "?"
            /\ opts.queryParams = Some(<<<<"find_by", "email">>>>)
                  => req.url = FP_API_BASE \o opts.endpoint \o "?find_by=email"
            /\ req.method = (IF opts.method = Undefined THEN "GET"
                             ELSE CHOOSE m \in opts.method : TRUE)
            /\ req.body = (IF opts.body = Undefined THEN Undefined
                           ELSE Some("{\"email\":\"a@b.c\"}"))
            /\ req.headers = [Authorization |-> "Bearer tok",
                              AccountID |-> "acct",
                              ContentType |-> "application/json"]

C29_Witness ==
    \E c \in DOMAIN requests :
        /\ Len(requests[c]) = MAX_RETRIES + 1
        /\ options[c].method = Some("PUT")
        /\ requests[c][MAX_RETRIES + 1].body = Some("{\"email\":\"a@b.c\"}")
        /\ requests[c][MAX_RETRIES + 1].url = FP_API_BASE \o "/promoters/42?find_by=email"
        /\ Len(outcomes[c]) = MAX_RETRIES + 1

\* The way the DELETE of a call ended: answered with a 2xx status.
Answered2xx(c) ==
    /\ outcomes[c] # <<>>
    /\ Last(outcomes[c]).kind = "response"
    /\ Is2xx(Last(outcomes[c]).status)

\* C30: archive_promo_code reports 'archived successfully' only when the
\* upstream answered the DELETE with a 2xx status; every other outcome, a
\* non-2xx answer with any body or a network failure, gives a result with
\* isError true.
C30_ArchiveSuccessOnly2xx ==
    \A c \in DOMAIN toolResult :
        toolResult[c].returned =>
            /\ StartsWith(toolResult[c].text, ArchivedText) => Answered2xx(c)
            /\ ~Answered2xx(c) => toolResult[c].isError

====
